---- MODULE Spec2Model ----
(***************************************************************************)
(* Model of the stylized neuron cell builder (stylized_cell.py) and of    *)
(* its current-injection addressing (current_injection.py).               *)
(*                                                                         *)
(* Python lists are TLA+ sequences; a Python index i is position i+1.     *)
(* Lengths and radii are integers.  The angles are "up", "diag" and       *)
(* "down", whose sine and cosine are exact fractions over TrigDen, and    *)
(* lengths are multiples of TrigDen, so that L*sin(ang) and L*cos(ang)    *)
(* are integers.  A point produced by numpy.linspace is a numerator       *)
(* vector over an integer denominator.  The simulator (neuron.h) is       *)
(* represented by what the program stores in it and reads back from it:   *)
(* the diameter, the two 3-D points, nseg and the parent of every         *)
(* section, and the node at which a point process sits.  The variable     *)
(* exc holds the exception the last call raised, "none" if it returned.   *)
(***************************************************************************)
EXTENDS Integers, Sequences, FiniteSets, TLC

\* ------------------------------------------------------------------ bounds
MaxRows == 4          \* rows of a well-formed geometry table in SpecBuild
MaxBadRows == 3       \* rows of a table with arbitrary pids in SpecBuild
MaxInjRows == 2       \* rows of a geometry table in SpecInject
MaxRebuildRows == 2   \* rows of a geometry table in SpecRebuild
MaxInj == 2           \* injections kept by one cell
LocDen == 4           \* locations are the fractions i/LocDen

\* ------------------------------------------------------- program constants
dL == 30              \* default maximum segment length

\* ---------------------------------------------------------------- helpers
TrigDen == 5
\* the angles up (pi/2), diag (asin 3/5) and down (-asin 3/5)
SinNum(ang) == CASE ang = "up" -> 5 [] ang = "diag" -> 3 [] OTHER -> -3
CosNum(ang) == CASE ang = "up" -> 0 [] ang = "diag" -> 4 [] OTHER -> 4
\* L*math.sin(ang) and L*math.cos(ang)
LSin(L, ang) == (L * SinNum(ang)) \div TrigDen
LCos(L, ang) == (L * CosNum(ang)) \div TrigDen

\* math.ceil(L/dL) for positive integers
CeilDiv(a, b) == (a + b - 1) \div b

Origin == <<0, 0, 0>>
Vec(x, y, z) == <<x, y, z>>
VAdd(p, q) == <<p[1] + q[1], p[2] + q[2], p[3] + q[3]>>
VSub(p, q) == <<p[1] - q[1], p[2] - q[2], p[3] - q[3]>>
VScale(c, p) == <<c * p[1], c * p[2], c * p[3]>>

\* self.geometry is None; a stored table is never empty (set_geometry reads
\* its first row)
None == <<>>
NoExc == "none"

\* the element of a one-element set; {f(x) : x \in {e}} evaluates e once
The(S) == CHOOSE x \in S : TRUE

\* The position a Python list of length n gives to index i (0-based), or -1
\* when indexing raises IndexError.
PyIndex(n, i) == IF 0 <= i /\ i < n THEN i
                 ELSE IF -n <= i /\ i < 0 THEN n + i
                 ELSE -1

VARIABLES geometry, all, _nsec, segments, sec_id_in_seg, _nseg,
          seg_coords, injection, exc

vars == <<geometry, all, _nsec, segments, sec_id_in_seg, _nseg,
          seg_coords, injection, exc>>

\* -------------------------------------------------------- geometry tables
\* One row of the geometry dataframe.  The soma row's L, ang and pid are
\* never read by the builder.
SomaRows == {[type |-> 1, axial |-> ax, L |-> 20, R |-> 10, ang |-> "up", pid |-> 0] :
                ax \in BOOLEAN}
BadSomaRows == {[type |-> 2, axial |-> TRUE, L |-> 20, R |-> 10, ang |-> "up", pid |-> 0]}
Shapes == {[axial |-> TRUE,  L |-> 45, R |-> 2, ang |-> "up"],
           [axial |-> TRUE,  L |-> 30, R |-> 1, ang |-> "diag"],
           [axial |-> FALSE, L |-> 30, R |-> 1, ang |-> "diag"],
           [axial |-> FALSE, L |-> 45, R |-> 2, ang |-> "down"]}
FewShapes == {[axial |-> TRUE,  L |-> 45, R |-> 2, ang |-> "up"],
              [axial |-> FALSE, L |-> 30, R |-> 1, ang |-> "diag"]}
BranchRows(shapes, pids) ==
    {[type |-> 2, axial |-> s.axial, L |-> s.L, R |-> s.R, ang |-> s.ang, pid |-> p] :
        s \in shapes, p \in pids}

\* Tables of up to maxRows rows whose first row is one of firstRows.  With
\* wellFormed every pid is an earlier row; otherwise a pid is any of
\* -1..maxRows-1: an earlier row, the row itself, a later row, a row past the
\* end of a shorter table, or a negative index.
RECURSIVE TablesOfLen(_, _, _, _, _)
TablesOfLen(n, firstRows, shapes, maxRows, wellFormed) ==
    IF n = 1 THEN {<<r>> : r \in firstRows}
    ELSE {Append(t, r) :
            t \in TablesOfLen(n - 1, firstRows, shapes, maxRows, wellFormed),
            r \in BranchRows(shapes, IF wellFormed THEN 0..(n - 2)
                                                    ELSE -1..(maxRows - 1))}
Tables(firstRows, shapes, maxRows, wellFormed) ==
    UNION {TablesOfLen(n, firstRows, shapes, maxRows, wellFormed) : n \in 1..maxRows}

\* ------------------------------------------------------------- sections
\* h.Section(name=name) with sec.diam = diam: no 3-D points, nseg 1, no parent
NewSection(diam) == [diam |-> diam, n3d |-> 0, pt0 |-> Origin, pt1 |-> Origin,
                     nseg |-> 1, parent |-> -1]

\* Stylized_Cell.add_section on the pair (all, _nsec)
add_section(st, diam) ==
    [st EXCEPT !.all = Append(st.all, NewSection(diam)), !.nsec = st.nsec + 1]

\* Stylized_Cell.set_location applied to section index i
set_location(secs, i, pt0, pt1, n) ==
    [secs EXCEPT ![i + 1] = [@ EXCEPT !.n3d = 2, !.pt0 = pt0, !.pt1 = pt1, !.nseg = n]]

\* section.connect(psec(1), 0) applied to section index i
connect(secs, i, p) == [secs EXCEPT ![i + 1] = [@ EXCEPT !.parent = p]]

\* the mirrored sibling's distal point: pt1[0] = -pt1[0]
MirrorPt1(pt1) == <<-pt1[1], pt1[2], pt1[3]>>

\* A faulty variant of ParentSlot: the parent row's index is used as a section index.
ParentSlot_RowIndex(sec_index, pid) == PyIndex(Len(sec_index), pid)

\* pid = sec_index[sec['pid']]: the section index kept for the parent row
ParentSlot(sec_index, pid) == sec_index[PyIndex(Len(sec_index), pid) + 1]

\* The body of the loop of set_morphology for the soma row (j = 0).
\* st = [all, nsec, sec_index, exc]
SomaStep(st, sec) ==
    LET s1 == add_section([st EXCEPT !.sec_index[1] = st.nsec], 2 * sec.R)
        me == s1.nsec - 1
        pt0 == Vec(0, -2 * sec.R, 0)
        pt1 == Origin
        s2 == [s1 EXCEPT !.all = set_location(s1.all, me, pt0, pt1, 1)]
    IN  IF sec.axial THEN s2
        ELSE \* add_section, then psec is unbound in section.connect(psec(1),0)
             [add_section(s2, 2 * sec.R) EXCEPT !.exc = "UnboundLocalError"]

\* The body of the loop of set_morphology for a row j > 0.
BranchStep(st, j, sec) ==
    LET s1 == add_section([st EXCEPT !.sec_index[j + 1] = st.nsec], 2 * sec.R)
        me == s1.nsec - 1
        n == CeilDiv(sec.L, dL)
        slot == PyIndex(Len(s1.sec_index), sec.pid)
    IN  IF slot = -1 THEN [s1 EXCEPT !.exc = "IndexError"]
        ELSE
        LET pid == ParentSlot(s1.sec_index, sec.pid)
            psec == s1.all[pid + 1]
        IN  IF pid >= Len(s1.all) THEN [s1 EXCEPT !.exc = "IndexError"]  \* self.all[pid]
            ELSE IF psec.n3d < 2 THEN [s1 EXCEPT !.exc = "RuntimeError"] \* psec.x3d(1)
            ELSE
            LET pt0 == psec.pt1
                off == Vec(IF sec.axial THEN 0 ELSE LCos(sec.L, sec.ang),
                           LSin(sec.L, sec.ang), 0)
                pt1 == VAdd(off, pt0)
                s2 == [s1 EXCEPT !.all =
                          set_location(connect(s1.all, me, pid), me, pt0, pt1, n)]
            IN  IF sec.axial THEN s2
                ELSE LET s3 == add_section(s2, 2 * sec.R)
                         sib == s3.nsec - 1
                     IN  [s3 EXCEPT !.all =
                             set_location(connect(s3.all, sib, pid), sib, pt0,
                                          MirrorPt1(pt1), n)]

\* A faulty variant of RowStep: the mirrored sibling of a non-axial row is never created.
RowStep_NoSibling(st, j, sec) ==
    IF j = 0 THEN SomaStep(st, sec) ELSE BranchStep(st, j, [sec EXCEPT !.axial = TRUE])

RowStep(st, j, sec) == IF j = 0 THEN SomaStep(st, sec) ELSE BranchStep(st, j, sec)

\* for j,sec in self.geometry.iterrows(): stops at the first exception
RECURSIVE BuildRows(_, _, _)
BuildRows(geom, j, st) ==
    IF j >= Len(geom) \/ st.exc # NoExc THEN st
    ELSE The({BuildRows(geom, j + 1, nxt) : nxt \in {RowStep(st, j, geom[j + 1])}})

\* self.set_location(self.soma,[0.,-R0,0.],[0.,R0,0.],1)
RecentreSoma(secs, R0) == set_location(secs, 0, Vec(0, -R0, 0), Vec(0, R0, 0), 1)

\* A faulty variant of StoreStep: the offset is recorded after the section's segments
\* have been counted.
StoreStep_OffsetAfter(st, i, sec) ==
    [segments |-> st.segments \o [k \in 1..sec.nseg |-> <<i, k - 1>>],
     sec_id_in_seg |-> Append(st.sec_id_in_seg, st.nseg + sec.nseg),
     nseg |-> st.nseg + sec.nseg]

\* One pass of the loop of store_segments over section i;
\* st = [segments, sec_id_in_seg, nseg].  A segment is <<section, local index>>.
StoreStep(st, i, sec) ==
    [segments |-> st.segments \o [k \in 1..sec.nseg |-> <<i, k - 1>>],
     sec_id_in_seg |-> Append(st.sec_id_in_seg, st.nseg),
     nseg |-> st.nseg + sec.nseg]

\* Stylized_Cell.store_segments
RECURSIVE StoreLoop(_, _, _)
StoreLoop(secs, i, st) ==
    IF i >= Len(secs) THEN st
    ELSE The({StoreLoop(secs, i + 1, nxt) : nxt \in {StoreStep(st, i, secs[i + 1])}})
store_segments(secs) ==
    StoreLoop(secs, 0, [segments |-> <<>>, sec_id_in_seg |-> <<>>, nseg |-> 0])

\* Stylized_Cell.set_morphology on a loaded geometry: the loop, the soma
\* re-centring and store_segments; the last two are skipped by an exception.
Morphology(geom) ==
    LET st == BuildRows(geom, 0, [all |-> <<>>, nsec |-> 0,
                                  sec_index |-> [i \in 1..Len(geom) |-> 0],
                                  exc |-> NoExc])
    IN  IF st.exc # NoExc THEN st
        ELSE [st EXCEPT !.all = RecentreSoma(st.all, geom[1].R)]

set_morphology ==
    IF geometry = None
    THEN UNCHANGED <<all, _nsec, segments, sec_id_in_seg, _nseg>> /\ exc' = NoExc
    ELSE LET st == Morphology(geometry)
         IN  /\ all' = st.all
             /\ _nsec' = st.nsec
             /\ exc' = st.exc
             /\ IF st.exc = NoExc
                THEN LET sg == store_segments(st.all)
                     IN  /\ segments' = sg.segments
                         /\ sec_id_in_seg' = sg.sec_id_in_seg
                         /\ _nseg' = sg.nseg
                ELSE UNCHANGED <<segments, sec_id_in_seg, _nseg>>

\* ---------------------------------------------------------------- actions
SetMorphology ==
    /\ set_morphology
    /\ UNCHANGED <<geometry, seg_coords, injection>>

\* Stylized_Cell.setup_all: set_morphology and the empty set_channels
SetupAll ==
    /\ IF geometry # None THEN set_morphology
       ELSE UNCHANGED <<all, _nsec, segments, sec_id_in_seg, _nseg>> /\ exc' = NoExc
    /\ UNCHANGED <<geometry, seg_coords, injection>>

\* Stylized_Cell.set_geometry
\* g = [kind, rows]: kind "none" is None, "frame" a pandas dataframe with the
\* given rows, anything else an object of another type
set_geometry(g) ==
    IF g.kind = "none" THEN geometry' = None /\ exc' = NoExc
    ELSE IF g.kind # "frame" THEN exc' = "TypeError" /\ UNCHANGED geometry
    ELSE IF g.rows = <<>> THEN exc' = "IndexError" /\ UNCHANGED geometry  \* iloc[0]
    ELSE IF g.rows[1].type # 1 THEN exc' = "ValueError" /\ UNCHANGED geometry
    ELSE geometry' = g.rows /\ exc' = NoExc

\* ------------------------------------------------------- calc_seg_coords
\* An entry of a numpy.empty array that was never written (its value is
\* whatever the allocator left there).
Uninit == [num |-> Origin, den |-> 0]
UninitR == -1

\* A faulty variant of linspace: the end point is left out (endpoint=False).
linspace_NoEndpoint(pt0, pt1, num, i) ==
    [num |-> VAdd(VScale(num, pt0), VScale(i, VSub(pt1, pt0))), den |-> num]

\* np.linspace(pt0,pt1,num)[i]: the i-th of num evenly spaced points
linspace(pt0, pt1, num, i) ==
    [num |-> VAdd(VScale(num - 1, pt0), VScale(i, VSub(pt1, pt0))), den |-> num - 1]

\* the number of positions of an array of length N that the slice
\* iseg:iseg+n selects
SliceLen(N, iseg, n) ==
    LET lo == IF iseg < N THEN iseg ELSE N
        hi == IF iseg + n < N THEN iseg + n ELSE N
    IN  hi - lo

\* The exception pass isec of the loop of calc_seg_coords raises, if any:
\* sec_id_in_seg[isec] past the end of the list, sec.x3d on a section without
\* 3-D points, or n rows (n > 1) assigned to a slice the array cuts short.
CoordExc(isec, secs, ids, N) ==
    IF isec >= Len(ids) THEN "IndexError"
    ELSE IF secs[isec + 1].n3d < 2 THEN "RuntimeError"
    ELSE IF /\ SliceLen(N, ids[isec + 1], secs[isec + 1].nseg) # secs[isec + 1].nseg
            /\ secs[isec + 1].nseg # 1
         THEN "ValueError"
    ELSE NoExc

\* the exception that ends the loop: that of the first pass that raises
LoopExc(secs, ids, N) ==
    LET bad == {isec \in 0..(Len(secs) - 1) : CoordExc(isec, secs, ids, N) # NoExc}
    IN  IF bad = {} THEN NoExc
        ELSE CoordExc(CHOOSE i \in bad : \A o \in bad : i <= o, secs, ids, N)

\* The pass whose slice assignment iseg:iseg+nseg is the last to write
\* position x (0-based) of p0, p1, p05 and r, or -1 when no pass writes it.
LastWriter(x, secs, ids) ==
    LET ws == {isec \in 0..(Len(secs) - 1) :
                 ids[isec + 1] <= x /\ x < ids[isec + 1] + secs[isec + 1].nseg}
    IN  IF ws = {} THEN -1 ELSE CHOOSE i \in ws : \A o \in ws : o <= i

\* pts = np.linspace(pt0,pt1,2*nseg+1) of the pass that wrote x, and the
\* rows pts[:-2:2], pts[2::2], pts[1:-1:2] that land on x
P0At(x, secs, ids) ==
    LET w == LastWriter(x, secs, ids)
    IN  IF w = -1 THEN Uninit
        ELSE LET sec == secs[w + 1]
             IN  linspace(sec.pt0, sec.pt1, 2 * sec.nseg + 1, 2 * (x - ids[w + 1]))
P1At(x, secs, ids) ==
    LET w == LastWriter(x, secs, ids)
    IN  IF w = -1 THEN Uninit
        ELSE LET sec == secs[w + 1]
             IN  linspace(sec.pt0, sec.pt1, 2 * sec.nseg + 1, 2 * (x - ids[w + 1]) + 2)
P05At(x, secs, ids) ==
    LET w == LastWriter(x, secs, ids)
    IN  IF w = -1 THEN Uninit
        ELSE LET sec == secs[w + 1]
             IN  linspace(sec.pt0, sec.pt1, 2 * sec.nseg + 1, 2 * (x - ids[w + 1]) + 1)
\* r[iseg:iseg+nseg] = sec.diam/2
RAt(x, secs, ids) ==
    LET w == LastWriter(x, secs, ids)
    IN  IF w = -1 THEN UninitR ELSE secs[w + 1].diam \div 2

\* p1 - p0 on one row
RowDiff(a, b) == IF a.den = 0 \/ b.den = 0 THEN Uninit
                 ELSE [num |-> VSub(a.num, b.num), den |-> a.den]

\* Stylized_Cell.calc_seg_coords: self.seg_coords is assigned only when the
\* loop ends without an exception.
calc_seg_coords ==
    LET e == LoopExc(all, sec_id_in_seg, _nseg)
    IN  /\ exc' = e
        /\ IF e # NoExc THEN UNCHANGED seg_coords
           ELSE seg_coords' =
                  [computed |-> TRUE,
                   dl |-> [x \in 1.._nseg |->
                             RowDiff(P1At(x - 1, all, sec_id_in_seg),
                                     P0At(x - 1, all, sec_id_in_seg))],
                   pc |-> [x \in 1.._nseg |-> P05At(x - 1, all, sec_id_in_seg)],
                   r |-> [x \in 1.._nseg |-> RAt(x - 1, all, sec_id_in_seg)]]

CalcSegCoords ==
    /\ calc_seg_coords
    /\ UNCHANGED <<geometry, all, _nsec, segments, sec_id_in_seg, _nseg, injection>>

\* ------------------------------------------------------ current injection
\* A location is the fraction loc/LocDen.  The simulator places a point
\* process created at sec(loc) on a node of the section: the zero-area node
\* at either end for loc 0 and 1, otherwise the node of the segment that
\* contains loc; get_segment().x is that node's arc position, as a fraction.
node_index(n, loc) == LET i == (n * loc) \div LocDen IN IF i = n THEN i - 1 ELSE i
node_exact(n, loc) ==
    IF loc <= 0 THEN [num |-> 0, den |-> 1]
    ELSE IF loc >= LocDen THEN [num |-> 1, den |-> 1]
    ELSE [num |-> 2 * node_index(n, loc) + 1, den |-> 2 * n]

\* Current_injection.__init__: the new object, or the exception it raises.
\* loc is kept in the record only to state properties; the object itself
\* keeps sec_index and the point process ccl.
Current_injection(secs, sec_index, loc) ==
    LET i == PyIndex(Len(secs), sec_index)
    IN  IF i = -1 THEN [exc |-> "IndexError"]              \* self.cell.all[sec_index]
        ELSE IF loc < 0 \/ loc > LocDen THEN [exc |-> "ValueError"]   \* sec(loc)
        ELSE [exc |-> NoExc,
              obj |-> [sec_index |-> sec_index, loc |-> loc,
                       x |-> node_exact(secs[i + 1].nseg, loc)]]

\* Current_injection.get_segment_id: [exc, id]
get_segment_id(inj, secs, ids) ==
    LET i == PyIndex(Len(secs), inj.sec_index)
        d == PyIndex(Len(ids), inj.sec_index)
    IN  IF i = -1 \/ d = -1 THEN [exc |-> "IndexError", id |-> -1]
        ELSE [exc |-> NoExc,
              id |-> ids[d + 1] + ((inj.x.num * secs[i + 1].nseg) \div inj.x.den)]

\* Stylized_Cell.add_injection
AddInjection(sec_index, loc) ==
    /\ Len(injection) < MaxInj
    /\ LET c == Current_injection(all, sec_index, loc)
       IN  /\ exc' = c.exc
           /\ IF c.exc = NoExc THEN injection' = Append(injection, c.obj)
              ELSE UNCHANGED injection
    /\ UNCHANGED <<geometry, all, _nsec, segments, sec_id_in_seg, _nseg, seg_coords>>

SecIndexInputs == (-Len(all) - 1)..(Len(all) + 1)
LocInputs == -1..(LocDen + 1)

\* ------------------------------------------------------------ set_geometry
SetGeometry(g) ==
    /\ set_geometry(g)
    /\ UNCHANGED <<all, _nsec, segments, sec_id_in_seg, _nseg, seg_coords, injection>>

\* the fields set by Stylized_Cell.__init__ before set_geometry
Fresh ==
    /\ all = <<>> /\ _nsec = 0 /\ segments = <<>> /\ sec_id_in_seg = <<>>
    /\ _nseg = 0
    /\ seg_coords = [computed |-> FALSE, dl |-> <<>>, pc |-> <<>>, r |-> <<>>]
    /\ injection = <<>>
    /\ exc = NoExc

\* ---------------------------------------------------------- specifications
\* SpecBuild: a cell whose geometry has been set to any table set_geometry
\* accepts (or left None), then built and its segment coordinates computed.
BuildTables == Tables(SomaRows, Shapes, MaxRows, TRUE)
               \cup Tables(SomaRows, FewShapes, MaxBadRows, FALSE)
InitBuild == Fresh /\ geometry \in BuildTables \cup {None}
NextBuild == SetMorphology \/ SetupAll \/ CalcSegCoords
SpecBuild == InitBuild /\ [][NextBuild]_vars

\* SpecInject: the same on smaller tables, with current injections added.
InjectTables == Tables(SomaRows, Shapes, MaxInjRows, FALSE)
InitInject == Fresh /\ geometry \in InjectTables \cup {None}
NextInject ==
    \/ SetMorphology
    \/ SetupAll
    \/ \E s \in SecIndexInputs, l \in LocInputs : AddInjection(s, l)
SpecInject == InitInject /\ [][NextInject]_vars

\* SpecRebuild: a cell constructed without geometry, whose geometry is then
\* set and reset to any value and built any number of times.
RebuildInputs ==
    {[kind |-> "none", rows |-> <<>>], [kind |-> "other", rows |-> <<>>],
     [kind |-> "frame", rows |-> <<>>]}
    \cup {[kind |-> "frame", rows |-> t] :
             t \in Tables(SomaRows \cup BadSomaRows, Shapes, MaxRebuildRows, FALSE)}
InitRebuild == Fresh /\ geometry = None
NextRebuild ==
    \/ \E g \in RebuildInputs : SetGeometry(g)
    \/ SetMorphology
    \/ SetupAll
SpecRebuild == InitRebuild /\ [][NextRebuild]_vars

\* ------------------------------------------------------------ properties
\* In SpecBuild and SpecInject the geometry never changes, so the section list
\* and the segment index are both non-empty exactly when a build of that
\* geometry has run to its end.
BuildRan == all # <<>>
Completed == all # <<>> /\ sec_id_in_seg # <<>>

\* every pid of rows 1.. references an earlier row (rows are 0-based)
ValidPids(geom) == \A j \in 2..Len(geom) : geom[j].pid \in 0..(j - 2)

\* number of non-axial rows among the 0-based rows 1..j-1
NonAxialBefore(geom, j) == Cardinality({i \in 2..j : ~geom[i].axial})
\* 0-based index of the first section of 0-based row j, soma row axial
RowSec(geom, j) == j + NonAxialBefore(geom, j)

RECURSIVE SumNseg(_, _)
\* sum of nseg over the 0-based sections 0..i-1
SumNseg(secs, i) == IF i = 0 THEN 0 ELSE SumNseg(secs, i - 1) + secs[i].nseg

\* C1: after a completed build sec_id_in_seg has one entry per section,
\* sec_id_in_seg[i] is the sum of nseg over sections 0..i-1, consecutive
\* entries differ by the section's nseg, and the segment list and _nseg
\* both have the length of the sum of all nseg.
C1_SegmentIndex ==
    Completed =>
        /\ Len(sec_id_in_seg) = Len(all)
        /\ \A i \in 1..Len(all) : sec_id_in_seg[i] = SumNseg(all, i - 1)
        /\ \A i \in 1..(Len(all) - 1) :
              sec_id_in_seg[i + 1] - sec_id_in_seg[i] = all[i].nseg
        /\ Len(segments) = SumNseg(all, Len(all))
        /\ _nseg = Len(segments)
        /\ \A i \in 1..Len(all) : \A k \in 1..all[i].nseg :
              segments[sec_id_in_seg[i] + k] = <<i - 1, k - 1>>
C1_Witness ==
    /\ Completed /\ Len(all) >= 4
    /\ \E i \in 2..(Len(all) - 1) : all[i].nseg = 2
    /\ exc = NoExc

\* C3: a build never completes on a table in which some row j > 0 has a pid
\* that is not an earlier row.
C3_BadPidFails == Completed => ValidPids(geometry)

\* C4: a completed build has rows + (non-axial rows other than the soma row)
\* sections, hence at least as many sections as rows; the build of a table
\* with valid pids and an axial soma row completes.
C4_SectionCount ==
    /\ Completed =>
          /\ Len(all) = Len(geometry) + NonAxialBefore(geometry, Len(geometry))
          /\ Len(all) >= Len(geometry)
          /\ _nsec = Len(all)
    /\ (BuildRan /\ ValidPids(geometry) /\ geometry[1].axial) => Completed
C4_Witness ==
    /\ Completed /\ Len(geometry) = 4 /\ Len(all) = 6 /\ ValidPids(geometry)
    /\ geometry[3].axial

\* C5: whenever row 0 is the soma, whatever its axial flag, a build (of a table
\* whose pids are valid) completes with the soma as one section at index 0
\* holding one segment.
C5_SomaOneSegment ==
    (BuildRan /\ ValidPids(geometry)) =>
        /\ Completed
        /\ Len(geometry) = 1 => Len(all) = 1
        /\ all[1].nseg = 1
        /\ sec_id_in_seg[1] = 0
        /\ Len(all) >= 2 => sec_id_in_seg[2] = 1

SqLen(v) == v[1] * v[1] + v[2] * v[2] + v[3] * v[3]

\* C8: in a completed build of a table with valid pids the two sections of a
\* non-axial row have the same pt0, nseg and length, and the second one's
\* pt1 is pt0 plus the first one's offset with its first coordinate negated.
C8_MirroredSibling ==
    (Completed /\ ValidPids(geometry)) =>
        \A j \in 2..Len(geometry) : ~geometry[j].axial =>
            LET a == all[RowSec(geometry, j - 1) + 1]
                b == all[RowSec(geometry, j - 1) + 2]
                off == VSub(a.pt1, a.pt0)
            IN  /\ a.pt0 = b.pt0
                /\ a.nseg = b.nseg
                /\ SqLen(VSub(b.pt1, b.pt0)) = SqLen(off)
                /\ b.pt1 = VAdd(b.pt0, <<-off[1], off[2], off[3]>>)

\* C9: in a completed build of a table with valid pids every section of a
\* row j > 0 is connected to the first section of row pid, which has a smaller
\* index, and starts at that section's distal point (at the soma's provisional
\* distal point (0,0,0) for a child of the soma); the soma ends up at
\* (0,-R,0),(0,R,0).
C9_ParentAttachment ==
    (Completed /\ ValidPids(geometry)) =>
        /\ all[1].pt0 = <<0, -geometry[1].R, 0>>
        /\ all[1].pt1 = <<0, geometry[1].R, 0>>
        /\ all[1].parent = -1
        /\ \A j \in 2..Len(geometry) :
              LET p == RowSec(geometry, geometry[j].pid)
                  first == RowSec(geometry, j - 1)
                  mine == IF geometry[j].axial THEN {first} ELSE {first, first + 1}
              IN  \A s \in mine :
                    /\ all[s + 1].parent = p
                    /\ p < s
                    /\ all[s + 1].pt0 = IF p = 0 THEN Origin ELSE all[p + 1].pt1
C9_Witness ==
    /\ Completed /\ ValidPids(geometry) /\ Len(geometry) = 4
    /\ ~geometry[2].axial /\ geometry[3].pid = 1 /\ ~geometry[3].axial
    /\ geometry[4].pid = 2
    /\ all[5].parent = 1 /\ all[6].parent = 3 /\ all[2].parent = 0

\* C10: on a built cell calc_seg_coords writes every global segment index
\* exactly once; segment k of a section with n segments gets its centre at
\* interpolation index 2k+1 of 2n+1 points, dl = (pt1-pt0)/n, so that centres
\* of consecutive segments are dl apart and the dl of a section sum to
\* pt1 - pt0, and r = diam/2; recomputing on unchanged sections changes nothing.
CoordsOfBuild == Completed /\ seg_coords.computed /\ Len(seg_coords.r) = _nseg
C10_Inv ==
    CoordsOfBuild =>
        /\ Len(seg_coords.dl) = _nseg /\ Len(seg_coords.pc) = _nseg
        /\ \A x \in 1.._nseg :
              Cardinality({ik \in {<<i, k>> : i \in 1..Len(all), k \in 0..(_nseg - 1)} :
                              /\ ik[2] < all[ik[1]].nseg
                              /\ sec_id_in_seg[ik[1]] + ik[2] + 1 = x}) = 1
        /\ \A i \in 1..Len(all) : \A k \in 0..(all[i].nseg - 1) :
              LET x == sec_id_in_seg[i] + k + 1
                  n == all[i].nseg
                  d == VSub(all[i].pt1, all[i].pt0)
              IN  /\ seg_coords.pc[x] =
                        [num |-> VAdd(VScale(2 * n, all[i].pt0), VScale(2 * k + 1, d)),
                         den |-> 2 * n]
                  /\ seg_coords.dl[x] = [num |-> VScale(2, d), den |-> 2 * n]
                  /\ VScale(n, seg_coords.dl[x].num) = VScale(seg_coords.dl[x].den, d)
                  /\ 2 * seg_coords.r[x] = all[i].diam
                  /\ k + 1 < n =>
                        VSub(seg_coords.pc[x + 1].num, seg_coords.pc[x].num)
                            = seg_coords.dl[x].num
C10_SegCoords ==
    /\ []C10_Inv
    /\ [][(CoordsOfBuild /\ exc' = NoExc /\ UNCHANGED <<all, sec_id_in_seg, _nseg>>)
            => seg_coords' = seg_coords]_vars
C10_Witness ==
    /\ CoordsOfBuild /\ exc = NoExc /\ Len(all) >= 4 /\ _nseg >= 6
    /\ \E i \in 2..Len(all) : all[i].nseg = 2 /\ all[i].pt0[1] # 0

\* the local segment index the location loc/LocDen is meant to select
ClampedLocal(n, loc) ==
    LET f == (loc * n) \div LocDen IN IF f < n - 1 THEN f ELSE n - 1

\* C2: on a built cell an injection into section s at a location in [0,1]
\* resolves to sec_id_in_seg[s] + min(floor(location*nseg), nseg-1), which
\* lies in the section's own segment range.
C2_ResolveClamped ==
    Completed =>
        \A m \in 1..Len(injection) :
            LET inj == injection[m]
                s == inj.sec_index
            IN  (s \in 0..(Len(all) - 1) /\ inj.loc \in 0..LocDen) =>
                  LET res == get_segment_id(inj, all, sec_id_in_seg)
                  IN  /\ res.exc = NoExc
                      /\ res.id = sec_id_in_seg[s + 1]
                                    + ClampedLocal(all[s + 1].nseg, inj.loc)
                      /\ res.id >= sec_id_in_seg[s + 1]
                      /\ res.id <= sec_id_in_seg[s + 1] + all[s + 1].nseg - 1

\* C6: on a built cell, creating an injection with a section index outside
\* 0..len(all)-1 or a location outside [0,1] raises and leaves the injection
\* list unchanged.
C6_BadAddressFails ==
    [][\A s \in SecIndexInputs, l \in LocInputs :
          (/\ Completed
           /\ AddInjection(s, l)
           /\ (s \notin 0..(Len(all) - 1) \/ l \notin 0..LocDen))
              => (exc' # NoExc /\ injection' = injection)]_vars

\* C7: no partially built state is ever observable: every section of the
\* section list is placed, sec_id_in_seg and the segment list are those of
\* the section list, and they change only in a build that runs to its end.
CellConsistent ==
    /\ \A i \in 1..Len(all) : all[i].n3d = 2
    /\ Len(sec_id_in_seg) = Len(all)
    /\ \A i \in 1..Len(all) : sec_id_in_seg[i] = SumNseg(all, i - 1)
    /\ Len(segments) = SumNseg(all, Len(all))
C7_AtomicBuild ==
    /\ []CellConsistent
    /\ [][(segments' # segments \/ sec_id_in_seg' # sec_id_in_seg)
            => (exc' = NoExc /\ CellConsistent')]_vars

====
